---- MODULE Spec2Model ----
(***************************************************************************)
(* accessible-colors: WCAG contrast model, hex/RGB/HSL codec, the          *)
(* lightness bisection of suggestColorVariant and the random samplers.     *)
(*                                                                         *)
(* Numbers.  The program computes in IEEE doubles.  Here                   *)
(*   - HSL channels and the bisection bounds are exact rationals <<n, d>>  *)
(*     in lowest terms (d > 0), so no rounding is hidden in the codec;     *)
(*   - the gamma curve of getLuminance (a division or Math.pow per 8-bit   *)
(*     channel value) is the 256-entry table Linear, in units of 10^-9;    *)
(*   - a luminance is an integer in units of 10^-9 and a contrast ratio    *)
(*     rounded to `precision` decimals is the integer ratio * 10^precision.*)
(* Strings are sequences of one-character strings; null is NULL for a      *)
(* string and NoValue for a number.                                        *)
(***************************************************************************)
EXTENDS Integers, Sequences, FiniteSets, TLC

NULL == <<"null">>
NoValue == -1
NaN == -1

\* ------------------------------------------------------------------------
\* Exact rational arithmetic

\* Operator arguments are passed unevaluated.  The operators below bind each
\* argument once, as an element of a singleton set, before using it.

RECURSIVE GCD(_, _)
GCD(a, b) ==
  IF b = 0 THEN a
  ELSE CHOOSE g \in {GCD(y, x % y) : x \in {a}, y \in {b}} : TRUE

Abs(x) == IF x < 0 THEN -x ELSE x

Rat(n, d) ==
  CHOOSE q \in {IF a = 0 THEN <<0, 1>> ELSE <<a \div g, b \div g>> :
                 <<a, b, g>> \in {<<n, d, GCD(Abs(n), d)>>}} : TRUE

RInt(k) == <<k, 1>>

RAdd(x, y) ==
  CHOOSE q \in {Rat(a[1] * (b[2] \div g) + b[1] * (a[2] \div g),
                     (a[2] \div g) * b[2]) :
                 <<a, b, g>> \in {<<x, y, GCD(x[2], y[2])>>}} : TRUE

RNeg(x) == CHOOSE q \in {<<-a[1], a[2]>> : a \in {x}} : TRUE

RSub(x, y) == RAdd(x, RNeg(y))

RMul(x, y) ==
  CHOOSE q \in {IF a[1] = 0 \/ b[1] = 0 THEN <<0, 1>>
                 ELSE LET g1 == GCD(Abs(a[1]), b[2])
                          g2 == GCD(Abs(b[1]), a[2])
                      IN  <<(a[1] \div g1) * (b[1] \div g2),
                            (a[2] \div g2) * (b[2] \div g1)>> :
                 a \in {x}, b \in {y}} : TRUE

\* x / y for y # 0
RDiv(x, y) ==
  CHOOSE q \in {IF b[1] < 0 THEN RMul(a, <<-b[2], -b[1]>>)
                 ELSE RMul(a, <<b[2], b[1]>>) : a \in {x}, b \in {y}} : TRUE

RLt(x, y) == RSub(x, y)[1] < 0

RAbs(x) == CHOOSE q \in {<<Abs(a[1]), a[2]>> : a \in {x}} : TRUE

RMax(x, y) ==
  CHOOSE q \in {IF RLt(a, b) THEN b ELSE a : a \in {x}, b \in {y}} : TRUE

RMin(x, y) ==
  CHOOSE q \in {IF RLt(b, a) THEN b ELSE a : a \in {x}, b \in {y}} : TRUE

\* Math.round of a non-negative rational: floor(x + 1/2)
MathRound(x) ==
  CHOOSE k \in {(2 * a[1] + a[2]) \div (2 * a[2]) : a \in {x}} : TRUE

\* ------------------------------------------------------------------------
\* Strings

HexChars == <<"0", "1", "2", "3", "4", "5", "6", "7",
              "8", "9", "a", "b", "c", "d", "e", "f">>

UpperHexChars == <<"0", "1", "2", "3", "4", "5", "6", "7",
                   "8", "9", "A", "B", "C", "D", "E", "F">>

IsHexChar(c) == \E i \in 1..16 : HexChars[i] = c \/ UpperHexChars[i] = c

DigitValue(c) ==
  (CHOOSE i \in 1..16 : HexChars[i] = c \/ UpperHexChars[i] = c) - 1

\* hex.replace(/^#/, '')
StripHash(str) == IF Len(str) > 0 /\ str[1] = "#" THEN Tail(str) ELSE str

\* parseInt(s, 16): the value of the longest prefix of hex digits, NaN when
\* that prefix is empty
RECURSIVE ParseHexFrom(_, _, _)
ParseHexFrom(s, i, acc) ==
  IF i > Len(s) \/ ~IsHexChar(s[i]) THEN acc
  ELSE ParseHexFrom(s, i + 1, acc * 16 + DigitValue(s[i]))

parseInt16(s) ==
  IF Len(s) = 0 \/ ~IsHexChar(s[1]) THEN NaN ELSE ParseHexFrom(s, 1, 0)

\* n.toString(16) for n >= 0
RECURSIVE toString16(_)
toString16(n) ==
  IF n < 16 THEN <<HexChars[n + 1]>>
  ELSE toString16(n \div 16) \o <<HexChars[(n % 16) + 1]>>

RECURSIVE padStart(_, _, _)
padStart(s, len, c) == IF Len(s) >= len THEN s ELSE padStart(<<c>> \o s, len, c)

\* ------------------------------------------------------------------------
\* helpers.ts: codec

\* rgbToHex without the padStart of line 33
rgbToHexUnpadded(rgb) ==
  CHOOSE hex \in {<<"#">> \o toString16(n) :
                   n \in {rgb.r * 65536 + rgb.g * 256 + rgb.b}} : TRUE

rgbToHex(rgb) ==
  CHOOSE hex \in {<<"#">> \o padStart(toString16(n), 6, "0") :
                   n \in {rgb.r * 65536 + rgb.g * 256 + rgb.b}} : TRUE

\* hexToRgb without the `& 255` of line 44
hexToRgbUnmasked(hex) ==
  CHOOSE rgb \in {LET bigint == IF parsed = NaN THEN 0 ELSE parsed
                   IN  [r |-> (bigint \div 65536) % 256,
                        g |-> bigint \div 256,
                        b |-> bigint % 256] :
                   parsed \in {parseInt16(StripHash(hex))}} : TRUE

\* NaN >> 16 is 0: ToInt32(NaN) = 0
hexToRgb(hex) ==
  CHOOSE rgb \in {LET bigint == IF parsed = NaN THEN 0 ELSE parsed
                   IN  [r |-> (bigint \div 65536) % 256,
                        g |-> (bigint \div 256) % 256,
                        b |-> bigint % 256] :
                   parsed \in {parseInt16(StripHash(hex))}} : TRUE

hue2rgb(p, q, t0) ==
  CHOOSE c \in
    {IF RLt(t, <<1, 6>>) THEN RAdd(a, RMul(RMul(RSub(b, a), RInt(6)), t))
     ELSE IF RLt(t, <<1, 2>>) THEN b
     ELSE IF RLt(t, <<2, 3>>)
       THEN RAdd(a, RMul(RMul(RSub(b, a), RSub(<<2, 3>>, t)), RInt(6)))
     ELSE a :
     <<a, b, t>> \in
       {<<p, q, IF RLt(RInt(1), t1) THEN RSub(t1, RInt(1)) ELSE t1>> :
        t1 \in {IF RLt(t0, RInt(0)) THEN RAdd(t0, RInt(1)) ELSE t0}}} : TRUE

hslToRgb(hsl) ==
  LET h == hsl.h
      s == hsl.s
      l == hsl.l
      q == IF RLt(l, <<1, 2>>) THEN RMul(l, RAdd(RInt(1), s))
           ELSE RSub(RAdd(l, s), RMul(l, s))
      p == RSub(RMul(RInt(2), l), q)
      r == IF s = <<0, 1>> THEN l ELSE hue2rgb(p, q, RAdd(h, <<1, 3>>))
      g == IF s = <<0, 1>> THEN l ELSE hue2rgb(p, q, h)
      b == IF s = <<0, 1>> THEN l ELSE hue2rgb(p, q, RSub(h, <<1, 3>>))
  IN  [r |-> MathRound(RMul(r, RInt(255))),
       g |-> MathRound(RMul(g, RInt(255))),
       b |-> MathRound(RMul(b, RInt(255)))]

\* rgbToHsl with the offsets of the green and blue sectors (lines 125 and
\* 128) exchanged
rgbToHslSectorsExchanged(rgb) ==
  CHOOSE hsl \in
    {LET l == RDiv(RAdd(max, min), RInt(2))
         d == RSub(max, min)
         s == IF RLt(<<1, 2>>, l) THEN RDiv(d, RSub(RSub(RInt(2), max), min))
              ELSE RDiv(d, RAdd(max, min))
         h6 == IF max = r
                 THEN RAdd(RDiv(RSub(g, b), d),
                           IF RLt(g, b) THEN RInt(6) ELSE RInt(0))
               ELSE IF max = g THEN RAdd(RDiv(RSub(b, r), d), RInt(4))
               ELSE RAdd(RDiv(RSub(r, g), d), RInt(2))
     IN  IF max = min THEN [h |-> <<0, 1>>, s |-> <<0, 1>>, l |-> l]
         ELSE [h |-> RDiv(h6, RInt(6)), s |-> s, l |-> l] :
     <<r, g, b, max, min>> \in
       {<<c[1], c[2], c[3], RMax(RMax(c[1], c[2]), c[3]),
          RMin(RMin(c[1], c[2]), c[3])>> :
        c \in {<<Rat(rgb.r, 255), Rat(rgb.g, 255), Rat(rgb.b, 255)>>}}} : TRUE

rgbToHsl(rgb) ==
  CHOOSE hsl \in
    {LET l == RDiv(RAdd(max, min), RInt(2))
         d == RSub(max, min)
         s == IF RLt(<<1, 2>>, l) THEN RDiv(d, RSub(RSub(RInt(2), max), min))
              ELSE RDiv(d, RAdd(max, min))
         h6 == IF max = r
                 THEN RAdd(RDiv(RSub(g, b), d),
                           IF RLt(g, b) THEN RInt(6) ELSE RInt(0))
               ELSE IF max = g THEN RAdd(RDiv(RSub(b, r), d), RInt(2))
               ELSE RAdd(RDiv(RSub(r, g), d), RInt(4))
     IN  IF max = min THEN [h |-> <<0, 1>>, s |-> <<0, 1>>, l |-> l]
         ELSE [h |-> RDiv(h6, RInt(6)), s |-> s, l |-> l] :
     <<r, g, b, max, min>> \in
       {<<c[1], c[2], c[3], RMax(RMax(c[1], c[2]), c[3]),
          RMin(RMin(c[1], c[2]), c[3])>> :
        c \in {<<Rat(rgb.r, 255), Rat(rgb.g, 255), Rat(rgb.b, 255)>>}}} : TRUE

hslToHex(hsl) == rgbToHex(hslToRgb(hsl))

hexToHsl(str) == rgbToHsl(hexToRgb(str))

\* ------------------------------------------------------------------------
\* index.ts: contrast model

\* round(10^9 * f(v / 255)) for v = 0..255, where f(x) is x / 12.92 for
\* x <= 0.03928 and ((x + 0.055) / 1.055) ^ 2.4 above
Linear ==
  <<
             0,     303527,     607054,     910581,    1214108,    1517635,
       1821162,    2124689,    2428216,    2731743,    3035270,    3346536,
       3676507,    4024717,    4391442,    4776953,    5181517,    5605392,
       6048833,    6512091,    6995410,    7499032,    8023193,    8568126,
       9134059,    9721217,   10329823,   10960094,   11612245,   12286488,
      12983032,   13702083,   14443844,   15208514,   15996293,   16807376,
      17641954,   18500220,   19382361,   20288563,   21219010,   22173885,
      23153366,   24157632,   25186860,   26241222,   27320892,   28426040,
      29556834,   30713444,   31896033,   33104767,   34339807,   35601315,
      36889450,   38204372,   39546235,   40915197,   42311411,   43735029,
      45186204,   46665086,   48171824,   49706566,   51269458,   52860647,
      54480276,   56128490,   57805430,   59511238,   61246054,   63010018,
      64803267,   66625939,   68478170,   70360096,   72271851,   74213568,
      76185381,   78187422,   80219820,   82282707,   84376212,   86500462,
      88655586,   90841711,   93058963,   95307467,   97587347,   99898728,
     102241733,  104616484,  107023103,  109461711,  111932428,  114435374,
     116970668,  119538428,  122138772,  124771818,  127437680,  130136477,
     132868322,  135633330,  138431615,  141263291,  144128471,  147027266,
     149959790,  152926152,  155926464,  158960835,  162029376,  165132195,
     168269400,  171441101,  174647404,  177888416,  181164244,  184474995,
     187820772,  191201683,  194617830,  198069320,  201556254,  205078736,
     208636870,  212230757,  215860500,  219526200,  223227957,  226965874,
     230740049,  234550582,  238397574,  242281122,  246201327,  250158285,
     254152094,  258182853,  262250658,  266355605,  270497791,  274677312,
     278894263,  283148740,  287440838,  291770650,  296138271,  300543794,
     304987314,  309468923,  313988713,  318546778,  323143209,  327778098,
     332451536,  337163615,  341914425,  346704056,  351532600,  356400144,
     361306780,  366252596,  371237680,  376262123,  381326011,  386429434,
     391572478,  396755231,  401977780,  407240212,  412542613,  417885071,
     423267670,  428690497,  434153636,  439657174,  445201195,  450785783,
     456411023,  462077000,  467783796,  473531496,  479320183,  485149940,
     491020850,  496932995,  502886458,  508881321,  514917665,  520995573,
     527115126,  533276404,  539479489,  545724461,  552011402,  558340390,
     564711506,  571124829,  577580440,  584078418,  590618841,  597201788,
     603827339,  610495571,  617206562,  623960392,  630757136,  637596874,
     644479682,  651405637,  658374817,  665387298,  672443157,  679542470,
     686685312,  693871761,  701101892,  708375780,  715693501,  723055129,
     730460740,  737910409,  745404210,  752942217,  760524505,  768151147,
     775822218,  783537792,  791297940,  799102738,  806952258,  814846572,
     822785754,  830769877,  838799012,  846873232,  854992608,  863157213,
     871367119,  879622397,  887923118,  896269353,  904661174,  913098652,
     921581856,  930110858,  938685728,  947306537,  955973353,  964686248,
     973445290,  982250550,  991102097, 1000000000
  >>

\* round(weight * 10^-4 * t), computed in two halves to stay within 32 bits
Weighted(weight, t) ==
  weight * (t \div 10000) + (weight * (t % 10000) + 5000) \div 10000

\* getLuminance with the blue weight 0.1722 for 0.0722
getLuminanceWrongWeight(color) ==
  IF color = <<>> THEN NoValue
  ELSE CHOOSE luminance \in
         {Weighted(2126, Linear[rgb.r + 1]) + Weighted(7152, Linear[rgb.g + 1])
            + Weighted(1722, Linear[rgb.b + 1]) : rgb \in {hexToRgb(color)}} : TRUE

\* getLuminance without the test of line 11
getLuminanceNoEmptyCheck(color) ==
  CHOOSE luminance \in
    {Weighted(2126, Linear[rgb.r + 1]) + Weighted(7152, Linear[rgb.g + 1])
       + Weighted(722, Linear[rgb.b + 1]) : rgb \in {hexToRgb(color)}} : TRUE

\* luminance in units of 10^-9
getLuminance(color) ==
  IF color = <<>> THEN NoValue
  ELSE CHOOSE luminance \in
         {Weighted(2126, Linear[rgb.r + 1]) + Weighted(7152, Linear[rgb.g + 1])
            + Weighted(722, Linear[rgb.b + 1]) : rgb \in {hexToRgb(color)}} : TRUE

RECURSIVE Pow10(_)
Pow10(k) == IF k = 0 THEN 1 ELSE 10 * Pow10(k - 1)

RECURSIVE Pow2(_)
Pow2(k) == IF k = 0 THEN 1 ELSE 2 * Pow2(k - 1)

\* floor(2^k * rem / b) for 0 <= rem < b, by binary long division
RECURSIVE BinaryFraction(_, _, _, _)
BinaryFraction(rem, b, k, acc) ==
  IF k = 0 THEN acc
  ELSE IF 2 * rem >= b THEN BinaryFraction(2 * rem - b, b, k - 1, 2 * acc + 1)
  ELSE BinaryFraction(2 * rem, b, k - 1, 2 * acc)

FractionBits == 20

\* Math.round((a / b) * 10^precision), the quotient taken to FractionBits bits
RoundedRatio(a, b, precision) ==
  CHOOSE k \in
    {(x \div y) * Pow10(precision)
       + (BinaryFraction(x % y, y, FractionBits, 0) * Pow10(precision)
            + Pow2(FractionBits - 1)) \div Pow2(FractionBits) :
     x \in {a}, y \in {b}} : TRUE

\* 0.05 in units of 10^-9
Offset == 50000000

\* getContrast without the sort of line 51
getContrastUnsorted(color1, color2, precision) ==
  IF color1 = NULL \/ color2 = NULL THEN NoValue
  ELSE CHOOSE contrast \in
         {IF luminance1 = NoValue \/ luminance2 = NoValue THEN NoValue
          ELSE RoundedRatio(luminance1 + Offset, luminance2 + Offset, precision) :
          luminance1 \in {getLuminance(color1)},
          luminance2 \in {getLuminance(color2)}} : TRUE

\* the result is in units of 10^-precision
getContrast(color1, color2, precision) ==
  IF color1 = NULL \/ color2 = NULL THEN NoValue
  ELSE CHOOSE contrast \in
         {LET light == IF luminance2 > luminance1 THEN luminance2 ELSE luminance1
              dark  == IF luminance2 > luminance1 THEN luminance1 ELSE luminance2
          IN  IF luminance1 = NoValue \/ luminance2 = NoValue THEN NoValue
              ELSE RoundedRatio(light + Offset, dark + Offset, precision) :
          luminance1 \in {getLuminance(color1)},
          luminance2 \in {getLuminance(color2)}} : TRUE

\* ratios are in units of 10^-3, the default precision of getContrast; the
\* result is "true", "false" or "null"
isContrasting(color1, color2, ratio) ==
  CHOOSE result \in
    {IF contrast = NoValue \/ contrast = 0 THEN "null"
     ELSE IF contrast >= ratio THEN "true" ELSE "false" :
     contrast \in {getContrast(color1, color2, 3)}} : TRUE

\* isAAContrast with the thresholds of isAAAContrast
isAAContrastStrict(color1, color2, large) ==
  isContrasting(color1, color2, IF large THEN 4500 ELSE 7000)

isAAContrast(color1, color2, large) ==
  isContrasting(color1, color2, IF large THEN 3000 ELSE 4500)

isAAAContrast(color1, color2, large) ==
  isContrasting(color1, color2, IF large THEN 4500 ELSE 7000)

\* the second definitions of the two predicates (index.ts:255 and :271)
isAAContrast2(color1, color2, large) ==
  LET contrast == getContrast(color1, color2, 3)
  IN  IF contrast = NoValue \/ contrast = 0 THEN "null"
      ELSE IF contrast >= (IF large THEN 3000 ELSE 4500) THEN "true" ELSE "false"

isAAAContrast2(color1, color2, large) ==
  LET contrast == getContrast(color1, color2, 3)
  IN  IF contrast = NoValue \/ contrast = 0 THEN "null"
      ELSE IF contrast >= (IF large THEN 4500 ELSE 7500) THEN "true" ELSE "false"

\* JavaScript truthiness of a predicate's result
Truthy(v) == v = "true"

\* the compliance predicate handed to suggestColorVariant and the samplers
compareFn(fn, color1, color2, large) ==
  IF fn = "AA" THEN isAAContrast(color1, color2, large)
  ELSE isAAAContrast(color1, color2, large)

\* ------------------------------------------------------------------------
\* Inputs

Str7(a, b, c, d, e, f) == <<"#", a, b, c, d, e, f>>

\* well-formed colours, the first NumColors of which are used
SampleColors ==
  << Str7("7", "7", "4", "4", "b", "b"),
     Str7("f", "f", "2", "2", "0", "0"),
     Str7("8", "8", "8", "8", "8", "8"),
     Str7("0", "0", "F", "F", "3", "3"),
     Str7("f", "f", "f", "f", "f", "f"),
     Str7("0", "0", "0", "0", "0", "0"),
     Str7("8", "8", "3", "3", "2", "2"),
     Str7("f", "f", "3", "3", "9", "9"),
     Str7("7", "7", "7", "7", "7", "7") >>

NumColors == 8

Colors == {SampleColors[i] : i \in 1..NumColors}

\* strings that are not '#' and six hex digits
Malformed ==
  { <<>>, <<"#">>, <<"#", "F", "f", "f">>, <<"z", "z">>,
    <<"#", "1", "2", "g", "4", "5", "6">> }

\* further arguments of the contrast functions: README.md:105 and
\* index.test.ts:48
ContrastInputs ==
  Colors \cup Malformed \cup {Str7("6", "1", "3", "3", "6", "5"), <<"#", "f", "f">>}

\* the backgrounds handed to the samplers
Backgrounds == {SampleColors[3], SampleColors[5]}

\* Math.random() returns n / RandomUnit for some n in 0..RandomUnit-1: a
\* resolution of 24 bits tells every 24-bit colour from the next
RandomUnit == Pow2(24)

RandomGrid == 4

\* the values of n drawn: RandomGrid evenly spaced ones from 0 on, and the
\* greatest value Math.random() can return
RandomDraws ==
  {j * (RandomUnit \div RandomGrid) : j \in 0..(RandomGrid - 1)}
    \cup {RandomUnit - 1}

Precisions == 0..3

\* the channel values and the hex digits the codec calls are given
SampleChannels == <<0, 255, 1, 15, 16, 128, 127, 254>>

NumChannels == 6

Channels == {SampleChannels[i] : i \in 1..NumChannels}

SampleDigits == <<"0", "f", "1", "8", "a", "7">>

NumDigits == 4

Digits == {SampleDigits[i] : i \in 1..NumDigits}

RGBInputs == [r : Channels, g : Channels, b : Channels]

HexInputs ==
  {Str7(d[1], d[2], d[3], d[4], d[5], d[6]) :
     d \in Digits \X Digits \X Digits \X Digits \X Digits \X Digits}

WellFormed(str) ==
  /\ Len(str) = 7
  /\ str[1] = "#"
  /\ \A i \in 2..7 : IsHexChar(str[i])

Levels == {"AA", "AAA"}

\* ------------------------------------------------------------------------
\* State

VARIABLES
  pc,          \* "idle", "begin", "loop", "combine", "sampling", "done"
  call,        \* the public operation in progress and its arguments
  ret,         \* the colour it returned (or NULL), once pc = "done"
  retNumber,   \* the number it returned (or NoValue)
  retBool,     \* the "true", "false" or "null" a predicate returned
  rgbValue,    \* the RGB object a codec call was given or returned
  hslValue,    \* the HSL object a codec call was given or returned
  direction,   \* binarySearchContrast: 'lighten' | 'darken'
  hs,          \* binarySearchContrast: hue and saturation of `change`
  min, max,    \* binarySearchContrast: the lightness bounds
  minColor, maxColor, prevMin, prevMax, fixedHex,
  darker, lighter,   \* suggestColorVariant: the two search results
  searched,    \* the directions binarySearchContrast was called with
  iterations,  \* loop iterations of the current binarySearchContrast call
  color,       \* getRandomAAColor / getRandomAAAColor: the candidate
  attempts,    \* getRandomAAColor / getRandomAAAColor: the counter
  tested       \* candidates tested against the background in this call

vars == <<pc, call, ret, retNumber, retBool, rgbValue, hslValue, direction,
          hs, min, max, minColor, maxColor, prevMin, prevMax, fixedHex,
          darker, lighter, searched, iterations, color, attempts, tested>>

searchVars == <<direction, hs, min, max, minColor, maxColor, prevMin, prevMax,
                fixedHex, darker, lighter, searched, iterations>>

samplerVars == <<color, attempts, tested>>

valueVars == <<retNumber, retBool, rgbValue, hslValue>>

\* the null result of binarySearchContrast
NoHSL == [h |-> <<-1, 1>>, s |-> <<-1, 1>>, l |-> <<-1, 1>>]

NoRGB == [r |-> -1, g |-> -1, b |-> -1]

NoCall == [op |-> "none", fn |-> "none", color1 |-> <<>>, color2 |-> <<>>,
           large |-> FALSE, precision |-> 3]

Init ==
  /\ pc = "idle"
  /\ call = NoCall
  /\ ret = NULL
  /\ retNumber = NoValue
  /\ retBool = "none"
  /\ rgbValue = NoRGB
  /\ hslValue = NoHSL
  /\ direction = "none"
  /\ hs = [h |-> <<0, 1>>, s |-> <<0, 1>>]
  /\ min = <<0, 1>>
  /\ max = <<0, 1>>
  /\ minColor = NULL
  /\ maxColor = NULL
  /\ prevMin = NULL
  /\ prevMax = NULL
  /\ fixedHex = NULL
  /\ darker = NoHSL
  /\ lighter = NoHSL
  /\ searched = {}
  /\ iterations = 0
  /\ color = NULL
  /\ attempts = 0
  /\ tested = 0

\* ------------------------------------------------------------------------
\* helpers.ts: suggestColorVariant and binarySearchContrast

hslChange == hexToHsl(call.color1)

hslKeep == hexToHsl(call.color2)

\* lines 156-174 of binarySearchContrast, entered with pc = "begin"; change and
\* fixed are the arguments hslChange and hslKeep of lines 232-245
SearchBegin ==
  /\ pc = "begin"
  /\ \E change \in {hslChange}, fixed \in {hslKeep} :
       LET l == change.l
           max0 == IF direction = "lighten" THEN <<1, 1>> ELSE l
           min0 == IF direction = "lighten" THEN l ELSE <<0, 1>>
       IN  \E minColor0 \in {hslToHex([h |-> change.h, s |-> change.s, l |-> min0])},
              maxColor0 \in {hslToHex([h |-> change.h, s |-> change.s, l |-> max0])},
              fixedHex0 \in {hslToHex(fixed)} :
             /\ hs' = [h |-> change.h, s |-> change.s]
             /\ max' = max0
             /\ min' = min0
             /\ minColor' = minColor0
             /\ maxColor' = maxColor0
             /\ fixedHex' = fixedHex0
             /\ prevMin' = NULL
             /\ prevMax' = NULL
             /\ iterations' = 0
             /\ searched' = searched \cup {direction}
             /\ IF Truthy(compareFn(call.fn,
                            IF direction = "lighten" THEN maxColor0 ELSE minColor0,
                            fixedHex0, call.large))
                  THEN /\ pc' = "loop"
                       /\ UNCHANGED <<direction, darker, lighter>>
                  ELSE \* return null
                       IF direction = "darken"
                         THEN /\ darker' = NoHSL
                              /\ direction' = "lighten"
                              /\ pc' = "begin"
                              /\ UNCHANGED lighter
                         ELSE /\ lighter' = NoHSL
                              /\ pc' = "combine"
                              /\ UNCHANGED <<direction, darker>>
  /\ UNCHANGED <<call, ret, valueVars, color, attempts, tested>>

\* the loop iterations explored in one binarySearchContrast call
MaxIterations == 16

\* SearchStep with the tests of lines 184 and 193 negated
SearchStepTestsNegated ==
  /\ pc = "loop"
  /\ minColor # prevMin \/ maxColor # prevMax
  /\ iterations < MaxIterations
  /\ \E adjusted \in {RDiv(RAdd(min, max), RInt(2))} :
       \E stringified \in {hslToHex([h |-> hs.h, s |-> hs.s, l |-> adjusted])} :
         LET compliant == Truthy(compareFn(call.fn, stringified, fixedHex, call.large))
         IN  /\ prevMin' = minColor
             /\ prevMax' = maxColor
             /\ IF (direction = "lighten" /\ compliant)
                     \/ (direction = "darken" /\ ~compliant)
                  THEN /\ min' = adjusted
                       /\ minColor' = stringified
                       /\ UNCHANGED <<max, maxColor>>
                  ELSE /\ max' = adjusted
                       /\ maxColor' = stringified
                       /\ UNCHANGED <<min, minColor>>
  /\ iterations' = iterations + 1
  /\ UNCHANGED <<pc, call, ret, valueVars, direction, hs, fixedHex, darker,
                 lighter, searched, color, attempts, tested>>

\* SearchStep with prevMin and prevMax exchanged in lines 177-178
SearchStepPrevExchanged ==
  /\ pc = "loop"
  /\ minColor # prevMin \/ maxColor # prevMax
  /\ iterations < MaxIterations
  /\ \E adjusted \in {RDiv(RAdd(min, max), RInt(2))} :
       \E stringified \in {hslToHex([h |-> hs.h, s |-> hs.s, l |-> adjusted])} :
         LET compliant == Truthy(compareFn(call.fn, stringified, fixedHex, call.large))
         IN  /\ prevMin' = maxColor
             /\ prevMax' = minColor
             /\ IF (direction = "lighten" /\ ~compliant)
                     \/ (direction = "darken" /\ compliant)
                  THEN /\ min' = adjusted
                       /\ minColor' = stringified
                       /\ UNCHANGED <<max, maxColor>>
                  ELSE /\ max' = adjusted
                       /\ maxColor' = stringified
                       /\ UNCHANGED <<min, minColor>>
  /\ iterations' = iterations + 1
  /\ UNCHANGED <<pc, call, ret, valueVars, direction, hs, fixedHex, darker,
                 lighter, searched, color, attempts, tested>>

\* one iteration of the while loop, lines 176-201
SearchStep ==
  /\ pc = "loop"
  /\ minColor # prevMin \/ maxColor # prevMax
  /\ iterations < MaxIterations
  /\ \E adjusted \in {RDiv(RAdd(min, max), RInt(2))} :
       \E stringified \in {hslToHex([h |-> hs.h, s |-> hs.s, l |-> adjusted])} :
         LET compliant == Truthy(compareFn(call.fn, stringified, fixedHex, call.large))
         IN  /\ prevMin' = minColor
             /\ prevMax' = maxColor
             /\ IF (direction = "lighten" /\ ~compliant)
                     \/ (direction = "darken" /\ compliant)
                  THEN /\ min' = adjusted
                       /\ minColor' = stringified
                       /\ UNCHANGED <<max, maxColor>>
                  ELSE /\ max' = adjusted
                       /\ maxColor' = stringified
                       /\ UNCHANGED <<min, minColor>>
  /\ iterations' = iterations + 1
  /\ UNCHANGED <<pc, call, ret, valueVars, direction, hs, fixedHex, darker,
                 lighter, searched, color, attempts, tested>>

\* SearchReturn with the two boundaries exchanged in line 203
SearchReturnOtherBound ==
  /\ pc = "loop"
  /\ ~(minColor # prevMin \/ maxColor # prevMax)
  /\ \E found \in {hexToHsl(IF direction = "lighten" THEN minColor ELSE maxColor)} :
         IF direction = "darken"
           THEN /\ darker' = found
                /\ direction' = "lighten"
                /\ pc' = "begin"
                /\ UNCHANGED lighter
           ELSE /\ lighter' = found
                /\ pc' = "combine"
                /\ UNCHANGED <<direction, darker>>
  /\ UNCHANGED <<call, ret, valueVars, hs, min, max, minColor, maxColor,
                 prevMin, prevMax, fixedHex, searched, iterations, color,
                 attempts, tested>>

\* the loop condition fails: line 203
SearchReturn ==
  /\ pc = "loop"
  /\ ~(minColor # prevMin \/ maxColor # prevMax)
  /\ \E found \in {hexToHsl(IF direction = "lighten" THEN maxColor ELSE minColor)} :
         IF direction = "darken"
           THEN /\ darker' = found
                /\ direction' = "lighten"
                /\ pc' = "begin"
                /\ UNCHANGED lighter
           ELSE /\ lighter' = found
                /\ pc' = "combine"
                /\ UNCHANGED <<direction, darker>>
  /\ UNCHANGED <<call, ret, valueVars, hs, min, max, minColor, maxColor,
                 prevMin, prevMax, fixedHex, searched, iterations, color,
                 attempts, tested>>

\* suggestColorVariant without the early return of lines 229-231
suggestColorVariantNoShortcut(fn, colorToChange, colorToKeep, large) ==
  /\ pc = "idle"
  /\ call' = [op |-> "suggest", fn |-> fn, color1 |-> colorToChange,
              color2 |-> colorToKeep, large |-> large, precision |-> 3]
  /\ direction' = "darken"
  /\ pc' = "begin"
  /\ UNCHANGED <<ret, valueVars, hs, min, max, minColor, maxColor, prevMin,
                 prevMax, fixedHex, darker, lighter, searched, iterations,
                 color, attempts, tested>>

\* suggestColorVariant, lines 224-231, called by suggestAAColorVariant
\* (fn = "AA") and suggestAAAColorVariant (fn = "AAA").  hexToHsl returns an
\* object for every string, so the test of line 226 never succeeds.
suggestColorVariant(fn, colorToChange, colorToKeep, large) ==
  /\ pc = "idle"
  /\ call' = [op |-> "suggest", fn |-> fn, color1 |-> colorToChange,
              color2 |-> colorToKeep, large |-> large, precision |-> 3]
  /\ IF Truthy(compareFn(fn, colorToChange, colorToKeep, large))
       THEN /\ ret' = colorToChange
            /\ pc' = "done"
            /\ UNCHANGED direction
       ELSE /\ direction' = "darken"
            /\ pc' = "begin"
            /\ UNCHANGED ret
  /\ UNCHANGED <<valueVars, hs, min, max, minColor, maxColor, prevMin,
                 prevMax, fixedHex, darker, lighter, searched, iterations,
                 color, attempts, tested>>

\* Combine with darker preferred on equal distances in line 249
CombineTieDarker ==
  /\ pc = "combine"
  /\ \E l \in {hslChange.l} :
       LET darkerDiff == RAbs(RSub(l, darker.l))
           lighterDiff == RAbs(RSub(l, lighter.l))
       IN  IF darker # NoHSL /\ lighter # NoHSL
             THEN \E nearer \in {IF ~RLt(lighterDiff, darkerDiff) THEN darker
                                  ELSE lighter} :
                    ret' = hslToHex(nearer)
           ELSE IF darker = NoHSL /\ lighter # NoHSL THEN ret' = hslToHex(lighter)
           ELSE IF lighter = NoHSL /\ darker # NoHSL THEN ret' = hslToHex(darker)
           ELSE ret' = NULL
  /\ pc' = "done"
  /\ UNCHANGED <<call, valueVars, searchVars, samplerVars>>

\* suggestColorVariant, lines 246-257
Combine ==
  /\ pc = "combine"
  /\ \E l \in {hslChange.l} :
       LET darkerDiff == RAbs(RSub(l, darker.l))
           lighterDiff == RAbs(RSub(l, lighter.l))
       IN  IF darker # NoHSL /\ lighter # NoHSL
             THEN \E nearer \in {IF RLt(darkerDiff, lighterDiff) THEN darker
                                  ELSE lighter} :
                    ret' = hslToHex(nearer)
           ELSE IF darker = NoHSL /\ lighter # NoHSL THEN ret' = hslToHex(lighter)
           ELSE IF lighter = NoHSL /\ darker # NoHSL THEN ret' = hslToHex(darker)
           ELSE ret' = NULL
  /\ pc' = "done"
  /\ UNCHANGED <<call, valueVars, searchVars, samplerVars>>

\* the call has returned; the next one starts from a clean slate
Return ==
  /\ pc = "done"
  /\ pc' = "idle"
  /\ call' = NoCall
  /\ ret' = NULL
  /\ retNumber' = NoValue
  /\ retBool' = "none"
  /\ rgbValue' = NoRGB
  /\ hslValue' = NoHSL
  /\ direction' = "none"
  /\ hs' = [h |-> <<0, 1>>, s |-> <<0, 1>>]
  /\ min' = <<0, 1>>
  /\ max' = <<0, 1>>
  /\ minColor' = NULL
  /\ maxColor' = NULL
  /\ prevMin' = NULL
  /\ prevMax' = NULL
  /\ fixedHex' = NULL
  /\ darker' = NoHSL
  /\ lighter' = NoHSL
  /\ searched' = {}
  /\ iterations' = 0
  /\ color' = NULL
  /\ attempts' = 0
  /\ tested' = 0

Suggest ==
  \E fn \in Levels, colorToChange \in Colors \cup Malformed,
     colorToKeep \in Colors \cup Malformed, large \in BOOLEAN :
    suggestColorVariant(fn, colorToChange, colorToKeep, large)

Next == Suggest \/ SearchBegin \/ SearchStep \/ SearchReturn \/ Combine \/ Return

Spec == Init /\ [][Next]_vars

\* a call that has started runs on: the functions are synchronous and nothing
\* suspends them
SpecFair ==
  /\ Spec
  /\ WF_vars(SearchBegin)
  /\ WF_vars(SearchStep)
  /\ WF_vars(SearchReturn)
  /\ WF_vars(Combine)

\* ------------------------------------------------------------------------
\* index.ts: calls of the contrast functions

Returned(op, fn, color1, color2, large, precision, number, bool) ==
  /\ pc = "idle"
  /\ pc' = "done"
  /\ call' = [op |-> op, fn |-> fn, color1 |-> color1, color2 |-> color2,
              large |-> large, precision |-> precision]
  /\ retNumber' = number
  /\ retBool' = bool
  /\ UNCHANGED <<ret, rgbValue, hslValue, searchVars, samplerVars>>

CallGetLuminance ==
  \E c \in ContrastInputs :
    Returned("getLuminance", "none", c, <<>>, FALSE, 3, getLuminance(c), "none")

CallGetContrast ==
  \E color1 \in ContrastInputs \cup {NULL}, color2 \in ContrastInputs \cup {NULL},
     precision \in Precisions :
    Returned("getContrast", "none", color1, color2, FALSE, precision,
             getContrast(color1, color2, precision), "none")

\* fn names the definition called: the exported predicates of index.ts:85 and
\* :97, or the second definitions of index.ts:255 and :271
CallPredicate ==
  \E fn \in {"AA", "AAA", "AA2", "AAA2"}, color1 \in ContrastInputs,
     color2 \in ContrastInputs, large \in BOOLEAN :
    Returned("predicate", fn, color1, color2, large, 3, NoValue,
             CASE fn = "AA" -> isAAContrast(color1, color2, large)
               [] fn = "AAA" -> isAAAContrast(color1, color2, large)
               [] fn = "AA2" -> isAAContrast2(color1, color2, large)
               [] fn = "AAA2" -> isAAAContrast2(color1, color2, large))

NextContrast == CallGetLuminance \/ CallGetContrast \/ CallPredicate \/ Return

SpecContrast == Init /\ [][NextContrast]_vars

\* ------------------------------------------------------------------------
\* index.ts: the random samplers

\* floor(n * m / 2^24) for 0 <= n, m < 2^24, multiplied in 12-bit halves to
\* stay within 32 bits
FloorScaled(n, m) ==
  LET nh == n \div 4096
      nl == n % 4096
      mh == m \div 4096
      ml == m % 4096
  IN  nh * mh + (nh * ml + nl * mh + (nl * ml) \div 4096) \div 4096

\* randomColor() for Math.random() = n / RandomUnit
randomColor(n) ==
  <<"#">> \o padStart(toString16(FloorScaled(n, 16777215)), 6, "0")

MaxAttempts == 1000

\* getRandomAAColor (fn = "AA") and getRandomAAAColor (fn = "AAA"): the first
\* draw, lines 125-126
getRandomColor(fn, background, large) ==
  /\ pc = "idle"
  /\ pc' = "sampling"
  /\ call' = [op |-> "getRandom", fn |-> fn, color1 |-> background,
              color2 |-> <<>>, large |-> large, precision |-> 3]
  /\ \E n \in RandomDraws : color' = randomColor(n)
  /\ attempts' = 0
  /\ tested' = 0
  /\ UNCHANGED <<ret, valueVars, searchVars>>

\* one evaluation of the loop condition and, when it holds, of the loop body
\* (lines 127-133)
SamplerStep ==
  /\ pc = "sampling"
  /\ tested' = tested + 1
  /\ IF Truthy(compareFn(call.fn, call.color1, color, call.large))
       THEN /\ ret' = color
            /\ pc' = "done"
            /\ UNCHANGED <<color, attempts>>
       ELSE /\ attempts' = attempts + 1
            /\ IF attempts > MaxAttempts
                 THEN /\ ret' = NULL
                      /\ pc' = "done"
                      /\ UNCHANGED color
                 ELSE /\ \E n \in RandomDraws : color' = randomColor(n)
                      /\ UNCHANGED <<pc, ret>>
  /\ UNCHANGED <<call, valueVars, searchVars>>

Sample ==
  \E fn \in Levels, background \in Backgrounds, large \in BOOLEAN :
    getRandomColor(fn, background, large)

NextSampler == Sample \/ SamplerStep \/ Return

SpecSampler == Init /\ [][NextSampler]_vars

\* ------------------------------------------------------------------------
\* helpers.ts: calls of the codec

CodecReturned(op, str, hex, rgb, hsl) ==
  /\ pc = "idle"
  /\ pc' = "done"
  /\ call' = [op |-> op, fn |-> "none", color1 |-> str, color2 |-> <<>>,
              large |-> FALSE, precision |-> 3]
  /\ ret' = hex
  /\ rgbValue' = rgb
  /\ hslValue' = hsl
  /\ UNCHANGED <<retNumber, retBool, searchVars, samplerVars>>

\* hex = rgbToHex(rgb)
CallRgbToHex ==
  \E rgb \in RGBInputs : CodecReturned("rgbToHex", <<>>, rgbToHex(rgb), rgb, NoHSL)

\* rgb = hexToRgb(hex)
CallHexToRgb ==
  \E hex \in HexInputs \cup Colors \cup Malformed :
    CodecReturned("hexToRgb", hex, NULL, hexToRgb(hex), NoHSL)

\* hsl = hexToHsl(str)
CallHexToHsl ==
  \E str \in HexInputs \cup Colors \cup Malformed :
    CodecReturned("hexToHsl", str, NULL, NoRGB, hexToHsl(str))

\* hsl = rgbToHsl(rgb); hex = hslToHex(hsl)
CallHslToHex ==
  \E rgb \in RGBInputs :
    \E hsl \in {rgbToHsl(rgb)} :
      CodecReturned("hslToHex", <<>>, hslToHex(hsl), NoRGB, hsl)

NextCodec ==
  CallRgbToHex \/ CallHexToRgb \/ CallHexToHsl \/ CallHslToHex \/ Return

SpecCodec == Init /\ [][NextCodec]_vars

\* ------------------------------------------------------------------------
\* index.ts: the exported operations together

NextLibrary == Next \/ NextContrast \/ NextSampler

SpecLibrary == Init /\ [][NextLibrary]_vars

\* ------------------------------------------------------------------------
\* Properties

SuggestDone == pc = "done" /\ call.op = "suggest"

BothWellFormed == WellFormed(call.color1) /\ WellFormed(call.color2)

\* the minimum ratio of each conformance level, in units of 10^-3
Threshold(fn, large) ==
  IF fn \in {"AA", "AA2"} THEN (IF large THEN 3000 ELSE 4500)
  ELSE (IF large THEN 4500 ELSE 7000)

AlreadyCompliant ==
  Truthy(compareFn(call.fn, call.color1, call.color2, call.large))

\* C1: a non-null colour returned by suggestAAColorVariant or
\* suggestAAAColorVariant for two well-formed colours has, against
\* colorToKeep, a contrast of at least the level's threshold and at most 21.
C1_SuggestionCompliant ==
  (SuggestDone /\ BothWellFormed /\ ret # NULL) =>
    /\ getContrast(ret, call.color2, 3) >= Threshold(call.fn, call.large)
    /\ getContrast(ret, call.color2, 3) <= 21000

\* a colour found by the lighten search and returned
C1_Witness ==
  /\ SuggestDone /\ BothWellFormed
  /\ lighter # NoHSL
  /\ ret = hslToHex(lighter)
  /\ ret # call.color1

\* C2: suggestAAColorVariant never returns null for two well-formed colours.
C2_AANeverNull ==
  (SuggestDone /\ BothWellFormed /\ call.fn = "AA") => ret # NULL

\* a search in which one direction was infeasible and the other gave a result
C2_Witness ==
  /\ SuggestDone /\ BothWellFormed /\ call.fn = "AA"
  /\ searched = {"darken", "lighten"}
  /\ lighter = NoHSL
  /\ ret # NULL

\* C3: when the predicate already holds for (colorToChange, colorToKeep,
\* large), colorToChange itself is returned and no search is run.
C3_NoOp ==
  (SuggestDone /\ AlreadyCompliant) => (ret = call.color1 /\ searched = {})

\* a compliant call whose colorToChange is not in the encoder's lowercase form
C3_Witness ==
  /\ SuggestDone /\ AlreadyCompliant
  /\ call.color1 = SampleColors[4]
  /\ ret = SampleColors[4]

\* the lightness values k / LightnessGrid tried as alternatives
LightnessGrid == 510

\* a compliant colour of the same hue and saturation, other than c, whose
\* lightness is strictly closer to that of colorToChange than the lightness of c
CloserVariantExists(c) ==
  \E k \in 0..LightnessGrid :
    LET l == Rat(k, LightnessGrid)
        variant == hslToHex([h |-> hslChange.h, s |-> hslChange.s, l |-> l])
    IN  /\ variant # c
        /\ Truthy(compareFn(call.fn, variant, call.color2, call.large))
        /\ RLt(RAbs(RSub(l, hslChange.l)), RAbs(RSub(hexToHsl(c).l, hslChange.l)))

\* C4: when colorToChange is not compliant and a colour is returned, no
\* compliant variant lies strictly closer in lightness to colorToChange.
C4_Nearest ==
  (SuggestDone /\ BothWellFormed /\ ~AlreadyCompliant /\ ret # NULL) =>
    ~CloserVariantExists(ret)

PredicateDone == pc = "done" /\ call.op = "predicate"

\* C5: each definition of isAAContrast and isAAAContrast is true exactly when
\* the contrast is at least 4.5 / 3 (AA) or 7 / 4.5 (AAA).
C5_Thresholds ==
  (PredicateDone /\ BothWellFormed) =>
    (retBool = "true" <=>
       getContrast(call.color1, call.color2, 3) >= Threshold(call.fn, call.large))

GetContrastDone == pc = "done" /\ call.op = "getContrast"

\* C6: getContrast(A, B, precision) equals getContrast(B, A, precision), the
\* null result included.
C6_Symmetric ==
  GetContrastDone => retNumber = getContrast(call.color2, call.color1, call.precision)

\* a call whose first colour is the darker one
C6_Witness ==
  /\ GetContrastDone
  /\ retNumber # NoValue
  /\ getLuminance(call.color1) < getLuminance(call.color2)

Black == Str7("0", "0", "0", "0", "0", "0")

White == Str7("f", "f", "f", "f", "f", "f")

\* C7: for well-formed colours getContrast is in [1, 21], is 21 for black
\* against white and 1 for a colour against itself.
C7_Range ==
  (GetContrastDone /\ BothWellFormed) =>
    /\ retNumber >= Pow10(call.precision)
    /\ retNumber <= 21 * Pow10(call.precision)
    /\ ({call.color1, call.color2} = {Black, White} => retNumber = 21 * Pow10(call.precision))
    /\ (call.color1 = call.color2 => retNumber = Pow10(call.precision))

\* black against white at the default precision
C7_Witness ==
  /\ GetContrastDone
  /\ call.color1 = Black /\ call.color2 = White /\ call.precision = 3
  /\ retNumber = 21000

GetLuminanceDone == pc = "done" /\ call.op = "getLuminance"

\* C8 as stated: getLuminance returns null for every empty or malformed input
\* and getContrast returns null when either colour is such an input.
C8_NullOnMalformed ==
  /\ (GetLuminanceDone /\ ~WellFormed(call.color1)) => retNumber = NoValue
  /\ (GetContrastDone /\ ~BothWellFormed) => retNumber = NoValue

\* C8, amended: getLuminance returns null exactly for the empty string, and
\* for any other string the luminance of the colour hexToRgb decodes from it;
\* getContrast returns null exactly when a colour is null or the empty string.
C8_NullOnEmpty ==
  /\ GetLuminanceDone =>
       /\ retNumber = NoValue <=> call.color1 = <<>>
       /\ call.color1 # <<>> => retNumber = getLuminance(rgbToHex(hexToRgb(call.color1)))
  /\ GetContrastDone =>
       (retNumber = NoValue <=>
          (call.color1 \in {NULL, <<>>} \/ call.color2 \in {NULL, <<>>}))

\* a malformed, non-empty string for which a luminance was returned
C8_Witness ==
  /\ GetLuminanceDone
  /\ call.color1 \in Malformed
  /\ call.color1 # <<>>
  /\ retNumber # NoValue

\* C9: the suggestion is null, and no search is run, when colorToChange or
\* colorToKeep does not decode, the empty string in particular.
C9_NullOnDecodeFailure ==
  (SuggestDone /\ (call.color1 = <<>> \/ call.color2 = <<>>)) =>
    ret = NULL

SamplerDone == pc = "done" /\ call.op = "getRandom"

\* C10: when a sampler returns null, at most 1000 candidates were tested.
C10_AtMostMaxAttempts ==
  (SamplerDone /\ ret = NULL) => tested <= MaxAttempts

\* '#' followed by exactly six lowercase hex digits
Canonical(str) ==
  /\ Len(str) = 7
  /\ str[1] = "#"
  /\ \A i \in 2..7 : \E k \in 1..16 : HexChars[k] = str[i]

\* C11 as stated: every non-null colour returned by a suggestion function or
\* a sampler, and every colour drawn by randomColor, is '#' and six lowercase
\* hex digits, whatever the case or length of the arguments.
C11_LowercaseOutput ==
  /\ ((SuggestDone \/ SamplerDone) /\ ret # NULL) => Canonical(ret)
  /\ pc = "sampling" => Canonical(color)

\* C11, amended: every colour drawn by randomColor or returned by a sampler,
\* and every colour a suggestion function returns after a search, is '#' and
\* six lowercase hex digits; a suggestion made without a search is
\* colorToChange character for character.
C11_EncodedOutput ==
  /\ (SuggestDone /\ searched # {} /\ ret # NULL) => Canonical(ret)
  /\ (SuggestDone /\ searched = {}) => ret = call.color1
  /\ (SamplerDone /\ ret # NULL) => Canonical(ret)
  /\ pc = "sampling" => Canonical(color)

\* a search started from a colour written in upper case whose result has a
\* leading zero digit
C11_Witness ==
  /\ SuggestDone
  /\ ~Canonical(call.color1)
  /\ searched # {}
  /\ ret # NULL
  /\ ret[2] = "0"

CodecDone(op) == pc = "done" /\ call.op = op

\* C12: hexToRgb(rgbToHex(rgb)) = rgb for every RGB triple with channels in
\* 0..255, and rgbToHex(hexToRgb(h)) = h for every lowercase '#rrggbb'
\* string h.
C12_HexRgbInverse ==
  /\ CodecDone("rgbToHex") => hexToRgb(ret) = rgbValue
  /\ (CodecDone("hexToRgb") /\ Canonical(call.color1)) =>
       rgbToHex(rgbValue) = call.color1

\* a lowercase string with a zero red channel decoded
C12_Witness ==
  /\ CodecDone("hexToRgb")
  /\ Canonical(call.color1)
  /\ rgbValue.r = 0 /\ rgbValue.g = 1 /\ rgbValue.b = 255

\* C13: hslToHex(hexToHsl(h)) = h for every lowercase '#rrggbb' colour h.
C13_HexHslRoundTrip ==
  (CodecDone("hexToHsl") /\ Canonical(call.color1)) =>
    hslToHex(hslValue) = call.color1

\* a saturated colour of the green sector decoded
C13_Witness ==
  /\ CodecDone("hexToHsl")
  /\ Canonical(call.color1)
  /\ hslValue.s # <<0, 1>>
  /\ RLt(<<1, 6>>, hslValue.h) /\ RLt(hslValue.h, <<1, 2>>)
  /\ RLt(<<1, 2>>, hslValue.l)

C15_SearchTerminates ==
  (pc = "loop") ~> (pc \in {"begin", "combine"})

\* the loop condition fails after at least one iteration
C15_Witness ==
  /\ pc = "loop"
  /\ iterations > 1
  /\ minColor = prevMin
  /\ maxColor = prevMax

\* C16: the bisection loop of one binarySearchContrast call executes at most
\* 10 iterations.
C16_AtMostTenIterations ==
  pc = "loop" => iterations <= 10

\* the colour of lightness k / LightnessGrid with the hue and saturation of
\* colorToChange
Variant(k) ==
  hslToHex([h |-> hslChange.h, s |-> hslChange.s, l |-> Rat(k, LightnessGrid)])

\* that colour is compliant against colorToKeep
CompliantVariant(k) ==
  Truthy(compareFn(call.fn, Variant(k), call.color2, call.large))

BothSearched == SuggestDone /\ searched = {"darken", "lighten"}

\* C17: when binarySearchContrast returned null for a direction, no lightness
\* of that direction's range gives a compliant colour; so a null suggestion
\* means that no lightness in [0, 1] does.
C17_ShortCircuitSound ==
  BothSearched =>
    /\ darker = NoHSL =>
         \A k \in 0..LightnessGrid :
           ~RLt(hslChange.l, Rat(k, LightnessGrid)) => ~CompliantVariant(k)
    /\ lighter = NoHSL =>
         \A k \in 0..LightnessGrid :
           ~RLt(Rat(k, LightnessGrid), hslChange.l) => ~CompliantVariant(k)
    /\ ret = NULL => \A k \in 0..LightnessGrid : ~CompliantVariant(k)

\* the predicate of the search holds for colour c
SearchCompliant(c) == Truthy(compareFn(call.fn, c, fixedHex, call.large))

\* C18: throughout the bisection loop 0 <= min <= max <= 1 and both bounds lie
\* in the initial range of the direction ([l, 1] for lighten, [0, l] for
\* darken); the boundary that is returned (maxColor for lighten, minColor for
\* darken) is a colour for which the predicate holds, and the other boundary
\* is at its initial place or at a midpoint for which the predicate failed.
C18_LoopInvariant ==
  pc = "loop" =>
    /\ ~RLt(min, <<0, 1>>) /\ ~RLt(max, min) /\ ~RLt(<<1, 1>>, max)
    /\ direction = "lighten" =>
         /\ ~RLt(min, hslChange.l)
         /\ SearchCompliant(maxColor)
         /\ min = hslChange.l \/ ~SearchCompliant(minColor)
    /\ direction = "darken" =>
         /\ ~RLt(hslChange.l, max)
         /\ SearchCompliant(minColor)
         /\ max = hslChange.l \/ ~SearchCompliant(maxColor)

\* a darken search in which both bounds have moved
C18_Witness ==
  /\ pc = "loop"
  /\ direction = "darken"
  /\ iterations >= 2
  /\ min # <<0, 1>>
  /\ max # hslChange.l

\* the distance of a search result from the lightness of colorToChange
LightnessDistance(found) == RAbs(RSub(hslChange.l, found.l))

\* C19: when both directions of suggestColorVariant produce a result, the
\* returned colour is the one whose lightness is closer to the lightness of
\* colorToChange, and the lighter one when the distances are equal; when
\* exactly one direction produces a result that one is returned, and when
\* neither does the result is null.
C19_CombineRule ==
  BothSearched =>
    /\ (darker # NoHSL /\ lighter # NoHSL) =>
         /\ RLt(LightnessDistance(darker), LightnessDistance(lighter)) =>
              ret = hslToHex(darker)
         /\ RLt(LightnessDistance(lighter), LightnessDistance(darker)) =>
              ret = hslToHex(lighter)
         /\ LightnessDistance(darker) = LightnessDistance(lighter) =>
              ret = hslToHex(lighter)
    /\ (darker = NoHSL /\ lighter # NoHSL) => ret = hslToHex(lighter)
    /\ (darker # NoHSL /\ lighter = NoHSL) => ret = hslToHex(darker)
    /\ (darker = NoHSL /\ lighter = NoHSL) => ret = NULL

\* both directions found a colour, the two are equally far from the original
\* lightness, and they are different colours
C19_Witness ==
  /\ BothSearched
  /\ darker # NoHSL
  /\ lighter # NoHSL
  /\ LightnessDistance(darker) = LightnessDistance(lighter)
  /\ hslToHex(darker) # hslToHex(lighter)
  /\ ret = hslToHex(lighter)

====
